---------------------------- MODULE Spec2Model ----------------------------
(***************************************************************************)
(* RGB mood lamp (MajicDesigns/RGB-Mood-Lamp): the non-blocking sketch     *)
(* RGB_LED_Mood_Lamp_NoBlock.ino as a state machine.                       *)
(*                                                                         *)
(* loop() is a two-state machine (S_LOOP selects the next cube vertex,     *)
(* S_ANIMATE polls traverse()); traverse() is a four-state machine that    *)
(* writes the colour v to the three PWM pins, adds the delta, and waits on *)
(* millis().  One action of the model is one pass of loop(), the whole     *)
(* pass, or one advance of the millisecond counter.                        *)
(*                                                                         *)
(* A uint32_t is kept as the 32-bit pattern read as a signed number (TLC's *)
(* integers are 32 bits wide): u < 2^31 is u, and u >= 2^31 is u - 2^32.   *)
(***************************************************************************)
EXTENDS Integers, Sequences, FiniteSets, TLC

VARIABLES
  now,        \* millis(): the elapsed-time counter, a uint32_t
  v,          \* static coord v: the colour being displayed, three uint8_t
  pwm,        \* the duty last written to R_PIN, G_PIN, B_PIN by analogWrite
  writes,     \* analogWrite triples since traverse last accepted a target
  tstate,     \* traverse: static state
  timeStart,  \* traverse: static timeStart
  timeDelay,  \* traverse: static timeDelay
  idx,        \* traverse: static idx
  dx, dy, dz, \* traverse: static dx, dy, dz
  ret,        \* the value the last call of traverse returned
  lstate,     \* loop: static state
  v1, v2,     \* loop: static v1, v2
  i,          \* loop: static i (fixed-path build only)
  extra,      \* unit driver: calls of traverse made after it first returned true
  req         \* driver: v before its first call, the arguments it calls traverse with

vars == <<now, v, pwm, writes, tstate, timeStart, timeDelay, idx, dx, dy, dz,
          ret, lstate, v1, v2, i, extra, req>>

---------------------------------------------------------------------------
(* The sketch's #defines and tables.                                       *)

MIN_RGB_VALUE == 10
MAX_RGB_VALUE == 255
TRANSITION_DELAY == 100
WAIT_DELAY == 500

vertex ==
  << [x |-> 0, y |-> 0, z |-> 0],   \* 0
     [x |-> 0, y |-> 0, z |-> 1],   \* 1
     [x |-> 0, y |-> 1, z |-> 1],   \* 2
     [x |-> 0, y |-> 1, z |-> 0],   \* 3
     [x |-> 1, y |-> 1, z |-> 0],   \* 4
     [x |-> 1, y |-> 0, z |-> 0],   \* 5
     [x |-> 1, y |-> 0, z |-> 1],   \* 6
     [x |-> 1, y |-> 1, z |-> 1] >> \* 7

MAX_VERTICES == Len(vertex)

\* 0x01, 0x23, 0x45, 0x67, 0x21, 0x65, 0x00,
\* 0x26, 0x41, 0x35, 0x71, 0x25, 0x36, 0x14, 0x70
path == << 1, 35, 69, 103, 33, 101, 0,
           38, 65, 53, 113, 37, 54, 20, 112 >>

MAX_PATH_SIZE == Len(path)

---------------------------------------------------------------------------
(* Bounds of the model.                                                    *)

\* milliseconds by which one advance of the clock moves millis()
TickStep == 40
\* the random build is followed until millis() passes MaxTime
MaxTime == 61000
\* the fixed-path build is followed until millis() passes MaxPathTime
MaxPathTime == 870000
\* loop() may stay away from the clock for MaxIdle ms after a timer ran out
MaxIdle == 320
\* calls the unit driver makes after traverse first returned true
MaxExtraCalls == 3
\* the clock values 0..MaxRandomInput are handed to MD_Random
MaxRandomInput == 300
\* the fair runs are followed until millis() passes MaxLiveTime
MaxLiveTime == 31000
\* a call of the engine may come LateStep ms after it was due
LateStep == 230
\* the runs with late calls are followed until millis() passes MaxSchedTime
MaxSchedTime == 90000
\* the millisecond-by-millisecond runs cover a session's last MaxTailSteps steps
MaxTailSteps == 2
\* and call the engine up to MaxLate ms after a timer ran out
MaxLate == 2

---------------------------------------------------------------------------
(* Machine arithmetic.                                                     *)

\* a uint8_t result: v.x += dx is (uint8_t)(v.x + dx)
U8(n) == n % 256

\* a uint16_t result
U16(n) == n % 65536

\* n % 10 of a uint32_t
U32Mod10(n) == IF n >= 0 THEN n % 10 ELSE (n + 6) % 10

\* n / 10 of a uint32_t (2^32 = 10 * 429496729 + 6)
U32Div10(n) == IF n >= 0 THEN n \div 10 ELSE 429496729 + ((n + 6) \div 10)

\* a + d of a uint32_t, d small: the counter wraps modulo 2^32
U32Add(a, d) ==
  IF a > 2147483647 - d
    THEN (((a - 2147483647) + (d - 1)) - 2147483647) - 1
    ELSE a + d

\* a - b >= d on uint32_t, d small: the difference is taken modulo 2^32, so
\* a difference below zero is an unsigned number above every delay
U32DiffAtLeast(a, b, d) ==
  IF (a >= 0) = (b >= 0)
    THEN (a - b < 0) \/ (a - b >= d)
    ELSE IF a >= 0
      THEN a >= b + d
      ELSE LET p == (a + 2147483647) + 1
               q == 2147483647 - b
           IN  (p >= d) \/ (q >= d) \/ (p + q + 1 >= d)

---------------------------------------------------------------------------
(* Coordinate model.                                                       *)

\* (vertex[k].x ? MAX_RGB_VALUE : MIN_RGB_VALUE)
Materialize(b) == IF b # 0 THEN MAX_RGB_VALUE ELSE MIN_RGB_VALUE

\* a coord with the three axes of a vertex materialized
MaterializeVertex(c) ==
  [x |-> Materialize(c.x), y |-> Materialize(c.y), z |-> Materialize(c.z)]

\* Reading past the end of an array yields whatever the memory there holds.
\* The byte past path[] is taken from OobPathBytes (0x00, 0x53, 0xFF: the
\* nibbles 0, 5 and 15), each byte past vertex[] from OobVertexBytes.
OobPathBytes == {0, 83, 255}

OobVertexBytes == {0, 255}

\* what reading vertex[k] can yield: the entry, or, past the end of the
\* table, whatever the three bytes there hold
VertexRead(k) ==
  IF k < MAX_VERTICES THEN {vertex[k + 1]}
  ELSE [x : OobVertexBytes, y : OobVertexBytes, z : OobVertexBytes]

\* what reading path[k] can yield
PathRead(k) ==
  IF k < MAX_PATH_SIZE THEN {path[k + 1]} ELSE OobPathBytes

---------------------------------------------------------------------------
(* Vertex selector.                                                        *)

\* the while loop of MD_Random on an n below 2^31: r = r + (n % 10); n = n/10
RECURSIVE DigitLoop(_, _)
DigitLoop(n, r) ==
  IF n > 0 THEN DigitLoop(n \div 10, U16(r + (n % 10))) ELSE r

\* MD_Random with the final % nMax lost
MD_RandomNoMod(nMax) ==
  IF now # 0
    THEN DigitLoop(U32Div10(now), U16(0 + U32Mod10(now)))
    ELSE 0

\* uint16_t MD_Random(int nMax), with n = millis(): the first pass of the loop
\* works on the full uint32_t, the later ones on a number below 2^31
MD_Random(nMax) ==
  LET r == IF now # 0
             THEN DigitLoop(U32Div10(now), U16(0 + U32Mod10(now)))
             ELSE 0
  IN  r % nMax

\* the nibbles taken the other way round
NibbleSwapped(b, k) == IF k % 2 = 1 THEN b \div 16 ELSE b % 16

\* if (i&1) v2 = b & 0xf; else v2 = b >> 4;  with b = path[i>>1]
Nibble(b, k) == IF k % 2 = 1 THEN b % 16 ELSE b \div 16

---------------------------------------------------------------------------
(* traverse(): the traversal engine.                                       *)

\* the early-return test with one comparison inverted
EarlyReturnTypo(adx, ady, adz) ==
  tstate = "S_INIT" /\ adx = 0 /\ ady = 0 /\ adz # 0

\* the early return taken in whatever state the engine is
EarlyReturnAnyState(adx, ady, adz) == adx = 0 /\ ady = 0 /\ adz = 0

\* (state == S_INIT) && (_dx == 0) && (_dy == 0) && (_dz == 0)
EarlyReturn(adx, ady, adz) ==
  tstate = "S_INIT" /\ adx = 0 /\ ady = 0 /\ adz = 0

\* the end-of-loop test one step early, and one step late
LoopDoneEarly == idx >= MAX_RGB_VALUE - MIN_RGB_VALUE - 1

LoopDoneLate == idx > MAX_RGB_VALUE - MIN_RGB_VALUE

\* idx >= MAX_RGB_VALUE-MIN_RGB_VALUE
LoopDone == idx >= MAX_RGB_VALUE - MIN_RGB_VALUE

\* the timer as a comparison with the end time, millis() >= timeStart +
\* timeDelay, the sum not reduced modulo 2^32
ExpiredAbsolute ==
  IF timeStart < 0 /\ timeStart + timeDelay >= 0
    THEN FALSE
    ELSE IF (now < 0) = (timeStart + timeDelay < 0)
      THEN now >= timeStart + timeDelay
      ELSE now < 0

\* the timer compared one millisecond short
ExpiredEarly == U32DiffAtLeast(now, timeStart, timeDelay - 1)

\* millis() - timeStart >= timeDelay
Expired == U32DiffAtLeast(now, timeStart, timeDelay)

\* a wait that is never left
AfterWaitStay == tstate

\* (state == S_WAITDELAY) ? S_INIT : S_LOOP
AfterWait == IF tstate = "S_WAITDELAY" THEN "S_INIT" ELSE "S_LOOP"

\* the return value testing the wrong state
ReturnedLoop(s) == s = "S_LOOP"

\* return(state == S_INIT)
Returned(s) == s = "S_INIT"

\* the z axis stepped by dy
StepSwapped(c) == [x |-> U8(c.x + dx), y |-> U8(c.y + dy), z |-> U8(c.z + dy)]

\* a late call made up for: one step per TRANSITION_DELAY gone by
StepCatchUp(c) ==
  LET n == IF writes = 0 THEN 1 ELSE (now - timeStart) \div TRANSITION_DELAY
  IN  [x |-> U8(c.x + n * dx), y |-> U8(c.y + n * dy), z |-> U8(c.z + n * dz)]

\* v.x += dx; v.y += dy; v.z += dz
Step(c) == [x |-> U8(c.x + dx), y |-> U8(c.y + dy), z |-> U8(c.z + dz)]

\* the early return(true): nothing of the engine changes
TReturnTrue ==
  /\ ret' = TRUE
  /\ UNCHANGED <<v, pwm, writes, tstate, timeStart, timeDelay, idx, dx, dy, dz>>

\* case S_INIT without its break: it falls through into case S_LOOP
TInitFallThrough(adx, ady, adz) ==
  /\ dx' = adx
  /\ dy' = ady
  /\ dz' = adz
  /\ pwm' = v
  /\ writes' = 1
  /\ idx' = 1
  /\ v' = [x |-> U8(v.x + adx), y |-> U8(v.y + ady), z |-> U8(v.z + adz)]
  /\ timeStart' = now
  /\ timeDelay' = TRANSITION_DELAY
  /\ tstate' = "S_WAITTRANS"

\* case S_INIT: capture the deltas, reset the step counter
TInit(adx, ady, adz) ==
  /\ idx' = 0
  /\ dx' = adx
  /\ dy' = ady
  /\ dz' = adz
  /\ tstate' = "S_LOOP"
  /\ writes' = 0
  /\ UNCHANGED <<v, pwm, timeStart, timeDelay>>

\* case S_LOOP stepping the colour before it writes it
TLoopStepFirst ==
  IF LoopDone
    THEN /\ timeStart' = now
         /\ timeDelay' = WAIT_DELAY
         /\ tstate' = "S_WAITDELAY"
         /\ UNCHANGED <<v, pwm, writes, idx, dx, dy, dz>>
    ELSE /\ v' = Step(v)
         /\ pwm' = v'
         /\ writes' = writes + 1
         /\ idx' = U16(idx + 1)
         /\ timeStart' = now
         /\ timeDelay' = TRANSITION_DELAY
         /\ tstate' = "S_WAITTRANS"
         /\ UNCHANGED <<dx, dy, dz>>

\* case S_LOOP: at the end start the rest, else write the colour, step it
\* and start the transition delay
TLoop ==
  IF LoopDone
    THEN /\ timeStart' = now
         /\ timeDelay' = WAIT_DELAY
         /\ tstate' = "S_WAITDELAY"
         /\ UNCHANGED <<v, pwm, writes, idx, dx, dy, dz>>
    ELSE /\ pwm' = v
         /\ writes' = writes + 1
         /\ idx' = U16(idx + 1)
         /\ v' = Step(v)
         /\ timeStart' = now
         /\ timeDelay' = TRANSITION_DELAY
         /\ tstate' = "S_WAITTRANS"
         /\ UNCHANGED <<dx, dy, dz>>

\* case S_WAITTRANS, S_WAITDELAY: leave the wait once the timer ran out
TWait ==
  /\ tstate' = IF Expired THEN AfterWait ELSE tstate
  /\ UNCHANGED <<v, pwm, writes, timeStart, timeDelay, idx, dx, dy, dz>>

\* bool traverse(int16_t _dx, int16_t _dy, int16_t _dz).  The switch's
\* default branch is dead: state only ever holds the four enumerators.
traverse(adx, ady, adz) ==
  IF EarlyReturn(adx, ady, adz)
    THEN TReturnTrue
    ELSE /\ CASE tstate = "S_INIT" -> TInit(adx, ady, adz)
              [] tstate = "S_LOOP" -> TLoop
              [] OTHER             -> TWait
         /\ ret' = Returned(tstate')

---------------------------------------------------------------------------
(* loop().                                                                 *)

\* a selection that puts v back on the first vertex
LoopSelectReanchor ==
  /\ lstate = "S_LOOP"
  /\ v1' = v2
  /\ v2' = U8(MD_Random(MAX_VERTICES))
  /\ v' = MaterializeVertex(vertex[1])
  /\ lstate' = "S_ANIMATE"
  /\ UNCHANGED <<now, pwm, writes, tstate, timeStart, timeDelay, idx,
                 dx, dy, dz, ret, i, extra, req>>

\* case S_LOOP of loop(), RANDOM_DISPLAY 1
LoopSelectRandom ==
  /\ lstate = "S_LOOP"
  /\ v1' = v2
  /\ v2' = U8(MD_Random(MAX_VERTICES))
  /\ lstate' = "S_ANIMATE"
  /\ UNCHANGED <<now, v, pwm, writes, tstate, timeStart, timeDelay, idx,
                 dx, dy, dz, ret, i, extra, req>>

\* case S_LOOP of loop(), RANDOM_DISPLAY 0: if (i++ >= 2*MAX_PATH_SIZE) wrap
\* the cursor and re-anchor v on vertex[v2]; then read the cursor's nibble
LoopSelectPath ==
  /\ lstate = "S_LOOP"
  /\ v1' = v2
  /\ LET wrap == i >= 2 * MAX_PATH_SIZE
         ni   == IF wrap THEN 0 ELSE i + 1
     IN  /\ i' = ni
         /\ IF wrap
              THEN \E c \in VertexRead(v2) : v' = MaterializeVertex(c)
              ELSE v' = v
         /\ \E b \in PathRead(ni \div 2) : v2' = Nibble(b, ni)
  /\ lstate' = "S_ANIMATE"
  /\ UNCHANGED <<now, pwm, writes, tstate, timeStart, timeDelay, idx,
                 dx, dy, dz, ret, extra, req>>

\* loop() going back to the selection whatever traverse returned
AfterAnimateAlways(r) == "S_LOOP"

\* if (traverse(...)) state = S_LOOP;
AfterAnimate(r) == IF r THEN "S_LOOP" ELSE "S_ANIMATE"

\* the deltas taken from the current vertex less the target
LoopDeltasReversed ==
  { <<b.x - a.x, b.y - a.y, b.z - a.z>> :
      a \in VertexRead(v2), b \in VertexRead(v1) }

\* vertex[v2].x-vertex[v1].x, vertex[v2].y-vertex[v1].y,
\* vertex[v2].z-vertex[v1].z: the arguments of loop()'s call of traverse,
\* for each reading the two table entries can yield
LoopDeltas ==
  { <<a.x - b.x, a.y - b.y, a.z - b.z>> :
      a \in VertexRead(v2), b \in VertexRead(v1) }

\* case S_ANIMATE of loop(): one call of traverse with the vertex deltas
LoopAnimate ==
  /\ lstate = "S_ANIMATE"
  /\ \E d \in LoopDeltas : traverse(d[1], d[2], d[3])
  /\ lstate' = AfterAnimate(ret')
  /\ UNCHANGED <<now, v1, v2, i, extra, req>>

---------------------------------------------------------------------------
(* The environment: the clock, and a unit driver of traverse.              *)

\* millis() advances while the engine waits on its timer
Tick(horizon) ==
  /\ tstate \in {"S_WAITTRANS", "S_WAITDELAY"}
  /\ ~Expired
  /\ now + TickStep <= horizon
  /\ now' = U32Add(now, TickStep)
  /\ UNCHANGED <<v, pwm, writes, tstate, timeStart, timeDelay, idx, dx, dy, dz,
                 ret, lstate, v1, v2, i, extra, req>>

\* millis() advances while the engine is idle
IdleTick ==
  /\ tstate = "S_INIT"
  /\ ~U32DiffAtLeast(now, timeStart, timeDelay + MaxIdle)
  /\ now + TickStep <= MaxTime
  /\ now' = U32Add(now, TickStep)
  /\ UNCHANGED <<v, pwm, writes, tstate, timeStart, timeDelay, idx, dx, dy, dz,
                 ret, lstate, v1, v2, i, extra, req>>

\* traverse has returned true at least once
Completed == ret \/ extra > 0

\* the unit driver calls traverse again with the deltas of the pair (v1, v2),
\* whatever it returned before
Drive ==
  /\ extra < MaxExtraCalls
  /\ traverse(vertex[v2 + 1].x - vertex[v1 + 1].x,
              vertex[v2 + 1].y - vertex[v1 + 1].y,
              vertex[v2 + 1].z - vertex[v1 + 1].z)
  /\ extra' = IF Completed THEN extra + 1 ELSE extra
  /\ UNCHANGED <<now, lstate, v1, v2, i, req>>

---------------------------------------------------------------------------
(* Specifications.                                                         *)

\* no request of a driver: the passes of loop() make them
NoRequest == [c |-> [x |-> 0, y |-> 0, z |-> 0], d |-> <<0, 0, 0>>]

\* the statics' initializers and setup()
Init ==
  /\ now = 0
  /\ v = MaterializeVertex(vertex[1])
  /\ pwm = [x |-> 0, y |-> 0, z |-> 0]
  /\ writes = 0
  /\ tstate = "S_INIT"
  /\ timeStart = 0
  /\ timeDelay = 0
  /\ idx = 0
  /\ dx = 0 /\ dy = 0 /\ dz = 0
  /\ ret = FALSE
  /\ lstate = "S_LOOP"
  /\ v1 = 0 /\ v2 = 0
  /\ i = 0
  /\ extra = 0
  /\ req = NoRequest

\* the sketch as built: RANDOM_DISPLAY 1
Next == LoopSelectRandom \/ LoopAnimate \/ Tick(MaxTime) \/ IdleTick

Spec == Init /\ [][Next]_vars

\* the sketch built with RANDOM_DISPLAY 0
NextPath == LoopSelectPath \/ LoopAnimate \/ Tick(MaxPathTime)

SpecPath == Init /\ [][NextPath]_vars

\* traverse alone, driven from vertex A to vertex B: v starts on A
InitUnit ==
  \E A \in 0 .. MAX_VERTICES - 1, B \in 0 .. MAX_VERTICES - 1 :
    /\ now = 0
    /\ v = MaterializeVertex(vertex[A + 1])
    /\ pwm = [x |-> 0, y |-> 0, z |-> 0]
    /\ writes = 0
    /\ tstate = "S_INIT"
    /\ timeStart = 0
    /\ timeDelay = 0
    /\ idx = 0
    /\ dx = 0 /\ dy = 0 /\ dz = 0
    /\ ret = FALSE
    /\ lstate = "S_ANIMATE"
    /\ v1 = A /\ v2 = B
    /\ i = 0
    /\ extra = 0
    /\ req = NoRequest

NextUnit == Drive \/ Tick(MaxTime)

SpecUnit == InitUnit /\ [][NextUnit]_vars

\* the clock values handed to MD_Random: the small ones, and uint32_t edge
\* values (2^31 - 1, 2^31, 3999999999, 4294967295)
RandomInputs ==
  (0 .. MaxRandomInput)
    \cup {999999999, 1999999999, 2147483647, -2147483647 - 1, -294967297, -1}

\* one selection of the random build at any reading of the clock
InitSelect ==
  /\ now \in RandomInputs
  /\ v = MaterializeVertex(vertex[1])
  /\ pwm = [x |-> 0, y |-> 0, z |-> 0]
  /\ writes = 0
  /\ tstate = "S_INIT"
  /\ timeStart = 0
  /\ timeDelay = 0
  /\ idx = 0
  /\ dx = 0 /\ dy = 0 /\ dz = 0
  /\ ret = FALSE
  /\ lstate = "S_LOOP"
  /\ v1 = 0 /\ v2 = 0
  /\ i = 0
  /\ extra = 0
  /\ req = NoRequest

NextSelect == LoopSelectRandom

SpecSelect == InitSelect /\ [][NextSelect]_vars

---------------------------------------------------------------------------
(* Properties of the traversal engine.                                     *)

\* the point k steps along the line from vertex a to vertex b, given as the
\* table's entries
AlongEntries(a, b, k) ==
  [x |-> Materialize(a.x) + k * (b.x - a.x),
   y |-> Materialize(a.y) + k * (b.y - a.y),
   z |-> Materialize(a.z) + k * (b.z - a.z)]

\* the point k steps along the line from vertex A to vertex B
Along(A, B, k) == AlongEntries(vertex[A + 1], vertex[B + 1], k)

\* the unit driver's first session has just reported completion
FirstDone == ret /\ extra = 0

\* C1: for every vertex pair A # B, with v on vertex A when the session
\* starts, v is exactly vertex B materialized (MAX_RGB_VALUE where B has 1,
\* MIN_RGB_VALUE where it has 0) at the call where traverse returns true.
C1_TargetReached ==
  (FirstDone /\ v1 # v2) =>
    /\ v = MaterializeVertex(vertex[v2 + 1])
    /\ \A ax \in {v.x, v.y, v.z} : ax \in {MIN_RGB_VALUE, MAX_RGB_VALUE}

\* C1, reached: the diagonal 5 -> 2 (all three axes move) has completed.
C1_Witness ==
  /\ FirstDone /\ v1 = 5 /\ v2 = 2
  /\ v = [x |-> MIN_RGB_VALUE, y |-> MAX_RGB_VALUE, z |-> MAX_RGB_VALUE]

\* C2 as stated: the session from vertex 0 to vertex 7 makes exactly 245
\* writes and its final write is (255,255,255); the last coordinate written
\* in a non-trivial session is the target vertex materialized.
C2_LastWriteIsTarget ==
  /\ (FirstDone /\ v1 = 0 /\ v2 = 7) =>
        /\ writes = 245
        /\ pwm = [x |-> 255, y |-> 255, z |-> 255]
  /\ (FirstDone /\ v1 # v2) => pwm = MaterializeVertex(vertex[v2 + 1])

\* C2, amended: every write of a non-trivial session is one delta step on
\* from the previous one, starting with the start vertex itself (for 0 -> 7:
\* (10,10,10), then +1 on all three axes per write); the session makes
\* exactly MAX - MIN = 245 writes; the final write is the target less one
\* step, (254,254,254) for 0 -> 7, and v holds the target after it.
C2_LastWriteOneShort ==
  /\ (extra = 0 /\ v1 # v2 /\ writes >= 1) => pwm = Along(v1, v2, writes - 1)
  /\ (FirstDone /\ v1 # v2) =>
        /\ writes = MAX_RGB_VALUE - MIN_RGB_VALUE
        /\ pwm = Along(v1, v2, MAX_RGB_VALUE - MIN_RGB_VALUE - 1)
        /\ v = Along(v1, v2, MAX_RGB_VALUE - MIN_RGB_VALUE)
  /\ (FirstDone /\ v1 = 0 /\ v2 = 7) =>
        /\ writes = 245
        /\ pwm = [x |-> 254, y |-> 254, z |-> 254]
        /\ v = [x |-> 255, y |-> 255, z |-> 255]

\* C2, reached: the session 0 -> 7 has completed after 245 writes.
C2_Witness ==
  /\ FirstDone /\ v1 = 0 /\ v2 = 7 /\ writes = 245
  /\ pwm = [x |-> 254, y |-> 254, z |-> 254]

\* a non-trivial session of the running program has just reported completion
SessionDone == ret /\ lstate = "S_LOOP" /\ v1 # v2

\* C3: in every session with a non-zero delta the number of writes between
\* the call that accepts the target and the call that reports completion is
\* exactly MAX_RGB_VALUE - MIN_RGB_VALUE, however the calls and the clock
\* interleave; the count never passes it on the way.
C3_WritesPerSession ==
  /\ writes <= MAX_RGB_VALUE - MIN_RGB_VALUE
  /\ tstate \in {"S_LOOP", "S_WAITTRANS"} => writes = idx
  /\ tstate = "S_WAITDELAY" => writes = MAX_RGB_VALUE - MIN_RGB_VALUE
  /\ SessionDone => writes = MAX_RGB_VALUE - MIN_RGB_VALUE

\* C3, reached: a non-trivial session of the program completed, 245 writes.
C3_Witness == SessionDone /\ writes = MAX_RGB_VALUE - MIN_RGB_VALUE

\* C4: a call of traverse in S_INIT with all deltas zero (v1 = v2) returns
\* true at once, writes nothing, leaves v unchanged and stays in S_INIT.
C4_ZeroDeltaNoOp ==
  [][(LoopAnimate /\ tstate = "S_INIT" /\ v1 = v2) =>
       /\ ret'
       /\ writes' = writes
       /\ pwm' = pwm
       /\ v' = v
       /\ tstate' = "S_INIT"
       /\ lstate' = "S_LOOP"]_vars

\* C4, reached: the zero-delta request 6 -> 6 was answered true, with the
\* engine idle and v on vertex 6.
C4_Witness ==
  /\ ret /\ lstate = "S_LOOP" /\ v1 = 6 /\ v2 = 6 /\ tstate = "S_INIT"
  /\ v = MaterializeVertex(vertex[7])

\* C5 as stated: once traverse has returned true, any number of further
\* calls with the deltas of the completed session leave v unchanged.
C5_IdempotentAfterDone == [][Completed => v' = v]_vars

\* C5, amended: the call that follows a return of true leaves v unchanged
\* (with non-zero deltas it only re-arms the engine: S_LOOP, idx 0, return
\* false), and with all deltas zero every further call leaves v unchanged;
\* with non-zero deltas the calls after that one write and step v again.
C5_OneCallAfterDone ==
  [][/\ ret => v' = v
     /\ (ret /\ Drive /\ v1 # v2) =>
           (tstate' = "S_LOOP" /\ idx' = 0 /\ ~ret')
     /\ (Completed /\ v1 = v2) => v' = v]_vars

\* C5, reached: one further call was made after the session 0 -> 7 completed
\* and v still is vertex 7.
C5_Witness ==
  /\ extra = 1 /\ v1 = 0 /\ v2 = 7 /\ tstate = "S_LOOP"
  /\ v = MaterializeVertex(vertex[8])

---------------------------------------------------------------------------
(* Properties of the vertex selector.                                      *)

\* The sum of the decimal digits of the uint32_t hi * 2^16 + lo, by long
\* division of the two halves.
RECURSIVE DigitSumHL(_, _)
DigitSumHL(hi, lo) ==
  IF hi = 0 /\ lo = 0 THEN 0
  ELSE LET t  == (hi % 10) * 65536 + lo
           ql == t \div 10
       IN  (t % 10) + DigitSumHL((hi \div 10) + (ql \div 65536), ql % 65536)

\* the sum of the decimal digits of millis()
DigitSumOfNow ==
  DigitSumHL(IF now >= 0 THEN now \div 65536 ELSE (now \div 65536) + 65536,
             now % 65536)

\* C7: MD_Random(8) ends and returns an index in [0,7] for every value of
\* the 32-bit counter, equal to (sum of the decimal digits of millis()) mod 8:
\* 0 at 0, 6 at 2^31 - 1 (digit sum 46), 1 at 2^32 - 1 (digit sum 57),
\* 4 at 3999999999 (digit sum 84).
C7_RandomIndex ==
  lstate = "S_ANIMATE" =>
    /\ v2 \in 0 .. 7
    /\ v2 = DigitSumOfNow % 8
    /\ now = 0 => v2 = 0
    /\ now = 2147483647 => v2 = 6
    /\ now = -1 => v2 = 1
    /\ now = -294967297 => v2 = 4

\* C7, reached: a vertex was selected with the counter at 2^32 - 1.
C7_Witness == lstate = "S_ANIMATE" /\ now = -1 /\ v2 = 1

\* the path as written in the sketch's comment: one vertex per hex digit
PathNibbles ==
  << 0, 1, 2, 3, 4, 5, 6, 7, 2, 1, 6, 5, 0, 0,
     2, 6, 4, 1, 3, 5, 7, 1, 2, 5, 3, 6, 1, 4, 7, 0 >>

\* C8: the selector reads the high nibble of path[i>>1] at an even cursor i
\* and the low nibble at an odd one, successive selections chain (v1 is the
\* previous v2), and the first session runs from vertex 0 to vertex 1
\* (path byte 0x01).
C8_PathDecode ==
  /\ (i % 2 = 0 /\ i \div 2 < MAX_PATH_SIZE) => v2 = path[(i \div 2) + 1] \div 16
  /\ (i % 2 = 1 /\ i \div 2 < MAX_PATH_SIZE) => v2 = path[(i \div 2) + 1] % 16
  /\ i < 2 * MAX_PATH_SIZE => v2 = PathNibbles[i + 1]
  /\ i \in 1 .. 2 * MAX_PATH_SIZE - 1 => v1 = PathNibbles[i]
  /\ i = 1 => (v1 = 0 /\ v2 = 1)
  /\ (lstate = "S_ANIMATE" /\ tstate # "S_INIT" /\ now < TRANSITION_DELAY) =>
        (v1 = 0 /\ v2 = 1)

\* C8, reached: the first session, 0 -> 1, is running; and a later selection
\* at an even cursor.
C8_Witness ==
  /\ i = 1 /\ v1 = 0 /\ v2 = 1 /\ lstate = "S_ANIMATE" /\ tstate = "S_WAITTRANS"
  /\ writes = 1

\* C8, reached further on: the even cursor 8 read the high nibble of 0x21.
C8_WitnessEven == i = 8 /\ v1 = 7 /\ v2 = 2 /\ lstate = "S_ANIMATE"

\* the largest per-axis distance between two coordinates
Jump(c, d) ==
  LET Abs(n) == IF n < 0 THEN -n ELSE n
      m1 == Abs(c.x - d.x)
      m2 == Abs(c.y - d.y)
      m3 == Abs(c.z - d.z)
  IN  IF m1 >= m2 /\ m1 >= m3 THEN m1 ELSE IF m2 >= m3 THEN m2 ELSE m3

\* C6: in the fixed-path build, the selection made once 2 x MAX_PATH_SIZE
\* selections have moved the cursor to the end wraps it to the path's first
\* entry (the vertex read is the high nibble of path[0]), re-anchors v on
\* that entry's starting vertex, and moves no axis of v by more than one step.
C6_WrapReanchors ==
  [][(LoopSelectPath /\ i >= 2 * MAX_PATH_SIZE) =>
       /\ i' = 0
       /\ v2' = path[1] \div 16
       /\ v' = MaterializeVertex(vertex[(path[1] \div 16) + 1])
       /\ Jump(v', v) <= 1]_vars

\* v is on the segment from vertex[v1] to vertex[v2], whatever reading the
\* two entries yields: v is k steps along it, and k can only be the distance
\* v has covered on an axis (or 0)
OnSegment ==
  \E a \in VertexRead(v1), b \in VertexRead(v2) :
    LET Abs(n) == IF n < 0 THEN -n ELSE n
        from   == MaterializeVertex(a)
    IN  \E k \in {0, Abs(v.x - from.x), Abs(v.y - from.y), Abs(v.z - from.z)} :
          /\ k <= MAX_RGB_VALUE - MIN_RGB_VALUE
          /\ v = AlongEntries(a, b, k)

\* C9: in every reachable state, under either vertex strategy, each
\* component of v is in [MIN_RGB_VALUE, MAX_RGB_VALUE] and v is on the
\* straight line between vertex v1 and vertex v2 materialized, inclusive.
C9_OnTheLine ==
  /\ \A ax \in {v.x, v.y, v.z} : MIN_RGB_VALUE <= ax /\ ax <= MAX_RGB_VALUE
  /\ OnSegment

\* C10: traverse returns true exactly when it leaves the engine in S_INIT:
\* at once for a zero-delta request in S_INIT, else only at the call in
\* S_WAITDELAY that finds the rest timer run out; never true while the engine
\* is in S_LOOP or S_WAITTRANS.
C10_TrueIffInit ==
  [][LoopAnimate =>
       /\ ret' = (tstate' = "S_INIT")
       /\ ret' = \/ (tstate = "S_INIT" /\ v1 = v2)
                 \/ (tstate = "S_WAITDELAY" /\ Expired)
       /\ tstate \in {"S_LOOP", "S_WAITTRANS"} => ~ret'
       /\ lstate' = IF ret' THEN "S_LOOP" ELSE "S_ANIMATE"]_vars

\* C10, reached: a non-trivial session returned true from S_WAITDELAY, the
\* rest timer run out.
C10_Witness ==
  /\ SessionDone /\ tstate = "S_INIT" /\ timeDelay = WAIT_DELAY
  /\ Expired /\ writes = MAX_RGB_VALUE - MIN_RGB_VALUE

---------------------------------------------------------------------------
(* Properties of the loop() sequencer and of the timers.                   *)

\* the engine is in the middle of a session
Busy(s) == s \in {"S_LOOP", "S_WAITTRANS", "S_WAITDELAY"}

\* C11: loop() changes v1, v2 or the path cursor only on a pass in its
\* S_LOOP state; it leaves S_ANIMATE only on a pass where traverse returned
\* true (the engine then idle); every pass in S_ANIMATE leaves v1, v2 and
\* the cursor alone; and while the engine is in S_LOOP, S_WAITTRANS or
\* S_WAITDELAY loop() is in S_ANIMATE, before and after every step.
C11_NoAbandon ==
  [][/\ (v1' # v1 \/ v2' # v2 \/ i' # i) => lstate = "S_LOOP"
     /\ (lstate = "S_ANIMATE" /\ lstate' # "S_ANIMATE") =>
           (ret' /\ lstate' = "S_LOOP" /\ tstate' = "S_INIT")
     /\ lstate = "S_ANIMATE" => (v1' = v1 /\ v2' = v2 /\ i' = i)
     /\ Busy(tstate) => lstate = "S_ANIMATE"
     /\ Busy(tstate') => lstate' = "S_ANIMATE"]_vars

\* C11, reached: the path's second session, 1 -> 2, was selected after the
\* first one completed and is now in its rest.
C11_Witness ==
  /\ i = 2 /\ v1 = 1 /\ v2 = 2 /\ lstate = "S_ANIMATE"
  /\ tstate = "S_WAITDELAY" /\ writes = MAX_RGB_VALUE - MIN_RGB_VALUE

\* the last MaxTailSteps steps of a session and its rest, millisecond by
\* millisecond: the engine has just made write number MAX - MIN -
\* MaxTailSteps; the clock reads the earliest value that allows, or a value
\* shortly before the uint32_t counter wraps: 50 ms before it, so that the
\* transition wait under way spans the wrap, or so that the rest does
TailPairs == {<<0, 7>>, <<5, 2>>, <<6, 4>>}

TailClock == {(MAX_RGB_VALUE - MIN_RGB_VALUE - MaxTailSteps) * TRANSITION_DELAY,
              -50, -((MaxTailSteps + 1) * TRANSITION_DELAY + 50)}

InitTail ==
  \E p \in TailPairs, t \in TailClock :
    LET k == MAX_RGB_VALUE - MIN_RGB_VALUE - MaxTailSteps
    IN  /\ now = t
        /\ v = Along(p[1], p[2], k)
        /\ pwm = Along(p[1], p[2], k - 1)
        /\ writes = k
        /\ tstate = "S_WAITTRANS"
        /\ timeStart = t
        /\ timeDelay = TRANSITION_DELAY
        /\ idx = k
        /\ dx = vertex[p[2] + 1].x - vertex[p[1] + 1].x
        /\ dy = vertex[p[2] + 1].y - vertex[p[1] + 1].y
        /\ dz = vertex[p[2] + 1].z - vertex[p[1] + 1].z
        /\ ret = FALSE
        /\ lstate = "S_ANIMATE"
        /\ v1 = p[1] /\ v2 = p[2]
        /\ i = 0
        /\ extra = 0
        /\ req = NoRequest

\* millis() advances by one while the engine waits; the engine may be
\* called up to MaxLate ms after its timer ran out
TickFine ==
  /\ tstate \in {"S_WAITTRANS", "S_WAITDELAY"}
  /\ ~U32DiffAtLeast(now, timeStart, timeDelay + MaxLate)
  /\ now' = U32Add(now, 1)
  /\ UNCHANGED <<v, pwm, writes, tstate, timeStart, timeDelay, idx, dx, dy, dz,
                 ret, lstate, v1, v2, i, extra, req>>

NextTail == Drive \/ TickFine

SpecTail == InitTail /\ [][NextTail]_vars

\* C12: the engine leaves S_WAITTRANS only for S_LOOP and only on a call
\* where millis() - timeStart >= TRANSITION_DELAY, and S_WAITDELAY only for
\* S_INIT (reporting completion) and only where millis() - timeStart >=
\* WAIT_DELAY; a write that follows another write of the session comes at
\* least TRANSITION_DELAY ms after it (timeStart is the clock at that
\* write); the rest timer is started with the step counter already at
\* MAX - MIN, so completion comes at least WAIT_DELAY ms after that.
C12_TimerDiscipline ==
  [][/\ (tstate = "S_WAITTRANS" /\ tstate' # tstate) =>
           (tstate' = "S_LOOP" /\ now - timeStart >= TRANSITION_DELAY)
     /\ (tstate = "S_WAITDELAY" /\ tstate' # tstate) =>
           (tstate' = "S_INIT" /\ ret' /\ now - timeStart >= WAIT_DELAY)
     /\ (writes' = writes + 1 /\ writes >= 1) =>
           now - timeStart >= TRANSITION_DELAY
     /\ (tstate = "S_LOOP" /\ tstate' = "S_WAITDELAY") =>
           (idx = MAX_RGB_VALUE - MIN_RGB_VALUE /\ timeStart' = now)
     /\ tstate = "S_WAITDELAY" => idx = MAX_RGB_VALUE - MIN_RGB_VALUE
     /\ (ret' /\ ~ret) =>
           (idx = MAX_RGB_VALUE - MIN_RGB_VALUE /\ now - timeStart >= WAIT_DELAY)]_vars

\* C12, reached: completion reported on the very millisecond the rest timer
\* ran out, WAIT_DELAY after the pass that found the counter at MAX - MIN.
C12_Witness ==
  /\ FirstDone /\ tstate = "S_INIT" /\ timeDelay = WAIT_DELAY
  /\ now - timeStart = WAIT_DELAY /\ now >= 0 /\ timeStart >= 0

---------------------------------------------------------------------------
(* Liveness.                                                               *)

\* The Arduino core calls loop() for ever and the timer interrupt keeps
\* millis() advancing: a pass of loop() that is due is eventually made, and
\* a clock the engine waits on eventually advances.
NextLive == LoopSelectRandom \/ LoopAnimate \/ Tick(MaxLiveTime) \/ IdleTick

SpecLive ==
  /\ Init
  /\ [][NextLive]_vars
  /\ WF_vars(LoopSelectRandom)
  /\ WF_vars(LoopAnimate)
  /\ WF_vars(Tick(MaxLiveTime))

\* the time a delay takes on a clock that advances by TickStep
Ticked(d) == ((d + TickStep - 1) \div TickStep) * TickStep

\* the longest a session lasts on that clock
SessionSpan ==
  (MAX_RGB_VALUE - MIN_RGB_VALUE) * Ticked(TRANSITION_DELAY) + Ticked(WAIT_DELAY)

\* the session can end before the clock reaches the horizon MaxLiveTime
InTime == now + SessionSpan <= MaxLiveTime

\* C13: with loop() called again and again and the clock advancing, every
\* session eventually reports completion with the engine back in S_INIT and
\* loop() back in S_LOOP; loop() in S_LOOP eventually selects again; the
\* engine in S_LOOP, S_WAITTRANS or S_WAITDELAY eventually leaves it (for
\* the sessions that fit before the horizon of the clock).
C13_Liveness ==
  /\ (lstate = "S_ANIMATE" /\ InTime) ~> (lstate = "S_LOOP" /\ ret /\ tstate = "S_INIT")
  /\ (lstate = "S_LOOP") ~> (lstate = "S_ANIMATE")
  /\ (tstate = "S_LOOP" /\ InTime) ~> (tstate = "S_WAITTRANS" \/ tstate = "S_WAITDELAY")
  /\ (tstate = "S_WAITTRANS" /\ InTime) ~> (tstate = "S_LOOP")
  /\ (tstate = "S_WAITDELAY" /\ InTime) ~> (tstate = "S_INIT")

\* C13, reached: a second non-trivial session has been selected and begun
\* after an earlier one ran its full span and reported completion.
C13_Witness ==
  /\ lstate = "S_ANIMATE" /\ v1 # 0 /\ v1 # v2 /\ tstate = "S_WAITTRANS"
  /\ writes = 1 /\ now >= (MAX_RGB_VALUE - MIN_RGB_VALUE) * TRANSITION_DELAY + WAIT_DELAY

---------------------------------------------------------------------------
(* traverse as a unit: a session asked for from any v with any deltas.     *)

\* the session req is asked for with the engine idle
InitReq(R) ==
  \E r \in R :
    /\ now = 0
    /\ v = r.c
    /\ pwm = [x |-> 0, y |-> 0, z |-> 0]
    /\ writes = 0
    /\ tstate = "S_INIT"
    /\ timeStart = 0
    /\ timeDelay = 0
    /\ idx = 0
    /\ dx = 0 /\ dy = 0 /\ dz = 0
    /\ ret = FALSE
    /\ lstate = "S_ANIMATE"
    /\ v1 = 0 /\ v2 = 0
    /\ i = 0
    /\ extra = 0
    /\ req = r

\* the driver calls traverse with the deltas of its request, again and again
DriveReq ==
  /\ extra < MaxExtraCalls
  /\ traverse(req.d[1], req.d[2], req.d[3])
  /\ extra' = IF Completed THEN extra + 1 ELSE extra
  /\ UNCHANGED <<now, lstate, v1, v2, i, req>>

\* the caller stays away: millis() is LateStep further on when the engine,
\* its timer run out, is called next
LateTick ==
  /\ tstate \in {"S_WAITTRANS", "S_WAITDELAY"}
  /\ Expired
  /\ ~U32DiffAtLeast(now, timeStart, Ticked(timeDelay) + LateStep)
  /\ now' = U32Add(now, LateStep)
  /\ UNCHANGED <<v, pwm, writes, tstate, timeStart, timeDelay, idx, dx, dy, dz,
                 ret, lstate, v1, v2, i, extra, req>>

\* two sessions, each under every pattern of punctual and late calls
SchedRequests ==
  { [c |-> [x |-> 10, y |-> 10, z |-> 10], d |-> <<1, 1, 1>>],
    [c |-> [x |-> 255, y |-> 10, z |-> 255], d |-> <<-1, 1, 0>>] }

InitSched == InitReq(SchedRequests)

NextSched == DriveReq \/ Tick(MaxSchedTime) \/ LateTick

SpecSched == InitSched /\ [][NextSched]_vars

\* the coordinate k steps of d on from c, each axis a uint8_t
Shifted(c, d, k) ==
  [x |-> U8(c.x + k * d[1]), y |-> U8(c.y + k * d[2]), z |-> U8(c.z + k * d[3])]

\* C14: for a fixed start coordinate and fixed deltas the k-th coordinate
\* written, the value of v after k steps and the final v are functions of
\* the start, the deltas and k alone, whatever the clock read at the calls:
\* every pattern of call times gives the same writes and the same final v.
C14_ScheduleIndependent ==
  extra = 0 =>
    /\ writes >= 1 => pwm = Shifted(req.c, req.d, writes - 1)
    /\ Busy(tstate) => (writes = idx /\ v = Shifted(req.c, req.d, idx))
    /\ ret => /\ writes = MAX_RGB_VALUE - MIN_RGB_VALUE
              /\ v = Shifted(req.c, req.d, MAX_RGB_VALUE - MIN_RGB_VALUE)

\* C14, reached: a session completed with some of its calls punctual and
\* some late, and wrote the same as the punctual run.
C14_Witness ==
  /\ FirstDone /\ req.d = <<1, 1, 1>>
  /\ now > SessionSpan /\ now < SessionSpan + (MAX_RGB_VALUE - MIN_RGB_VALUE + 1) * LateStep
  /\ pwm = [x |-> 254, y |-> 254, z |-> 254]

---------------------------------------------------------------------------
(* The blocking sketch's traverse, and the engine against it.              *)

\* for (int i = lo; i < hi; i++, v.x += dx, v.y += dy, v.z += dz): each
\* iteration writes v (and delays), then adds the deltas; the iterations
\* lo .. hi-1 from v = c, evaluated as two halves one after the other, give
\* the writes in order and the v they leave
RECURSIVE BlockingFor(_, _, _, _)
BlockingFor(c, d, lo, hi) ==
  IF hi <= lo THEN [writes |-> << >>, v |-> c]
  ELSE IF hi = lo + 1
    THEN [writes |-> <<c>>,
          v |-> [x |-> U8(c.x + d[1]), y |-> U8(c.y + d[2]), z |-> U8(c.z + d[3])]]
    ELSE LET mid    == (lo + hi) \div 2
             first  == BlockingFor(c, d, lo, mid)
             second == BlockingFor(first.v, d, mid, hi)
         IN  [writes |-> first.writes \o second.writes, v |-> second.v]

\* void traverse(int dx, int dy, int dz) of the blocking sketch, from v = c:
\* the coordinates it writes and the v it leaves
BlockingTraverse(c, d) ==
  IF d[1] = 0 /\ d[2] = 0 /\ d[3] = 0
    THEN [writes |-> << >>, v |-> c]
    ELSE BlockingFor(c, d, 0, MAX_RGB_VALUE - MIN_RGB_VALUE)

\* the start coordinates: two corners of the cube and a point off it whose
\* axes wrap as uint8_t within a session
BlockStarts ==
  { [x |-> 10, y |-> 10, z |-> 10], [x |-> 255, y |-> 10, z |-> 255],
    [x |-> 0, y |-> 128, z |-> 250] }

Deltas == {-1, 0, 1} \X {-1, 0, 1} \X {-1, 0, 1}

BlockRequests == { [c |-> c, d |-> d] : c \in BlockStarts, d \in Deltas }

\* one call of the blocking traverse for each request
BlockingRuns == [r \in BlockRequests |-> BlockingTraverse(r.c, r.d)]

InitBlock == InitReq(BlockRequests)

NextBlock == DriveReq \/ Tick(MaxTime)

SpecBlock == InitBlock /\ [][NextBlock]_vars

\* C15: for every start coordinate and delta triple in {-1,0,1}^3 the
\* engine, called until it first returns true, has written exactly the
\* sequence the blocking traverse writes in one call (its k-th write is the
\* blocking loop's k-th, none for an all-zero delta, never more) and leaves
\* the same v.
C15_RefinesBlocking ==
  extra = 0 =>
    LET b == BlockingRuns[req]
    IN  /\ writes <= Len(b.writes)
        /\ writes >= 1 => pwm = b.writes[writes]
        /\ ret => (writes = Len(b.writes) /\ v = b.v)

\* C15, reached: the session from (0,128,250) with deltas (-1,0,1), whose x
\* and z axes wrap, has completed as the blocking traverse does.
C15_Witness ==
  /\ FirstDone /\ req.c = [x |-> 0, y |-> 128, z |-> 250] /\ req.d = <<-1, 0, 1>>
  /\ writes = 245 /\ v = [x |-> 11, y |-> 128, z |-> 239]
  /\ pwm = [x |-> 12, y |-> 128, z |-> 238]

\* C15, reached for the all-zero delta: true at the first call, no write.
C15_WitnessZero ==
  /\ FirstDone /\ req.d = <<0, 0, 0>> /\ writes = 0
  /\ v = req.c /\ pwm = [x |-> 0, y |-> 0, z |-> 0]

---------------------------------------------------------------------------
(* The deltas loop() hands to traverse.                                    *)

\* target vertex entry less current vertex entry, per axis
EntryDeltas ==
  <<vertex[v2 + 1].x - vertex[v1 + 1].x,
    vertex[v2 + 1].y - vertex[v1 + 1].y,
    vertex[v2 + 1].z - vertex[v1 + 1].z>>

\* C16 as stated: every delta triple loop() passes to traverse is target
\* less current per axis, and each component is -(MAX - MIN), 0 or
\* +(MAX - MIN).
C16_DeltaMagnitude ==
  lstate = "S_ANIMATE" =>
    \A d \in LoopDeltas :
      /\ d = EntryDeltas
      /\ \A k \in 1 .. 3 :
           d[k] \in {-(MAX_RGB_VALUE - MIN_RGB_VALUE), 0,
                     MAX_RGB_VALUE - MIN_RGB_VALUE}

\* C16, amended: every delta triple loop() passes to traverse is the target
\* vertex's table entry less the current vertex's, per axis; the entries
\* are 0 or 1, so each component is -1, 0 or +1: the step of one write.  The
\* engine holds those deltas for the session, and it is the displacement of
\* v over the session whose components are -(MAX - MIN), 0 or +(MAX - MIN).
C16_UnitDeltas ==
  /\ lstate = "S_ANIMATE" =>
        \A d \in LoopDeltas :
          /\ d = EntryDeltas
          /\ \A k \in 1 .. 3 : d[k] \in {-1, 0, 1}
  /\ Busy(tstate) => <<dx, dy, dz>> = EntryDeltas
  /\ SessionDone =>
        /\ v.x - MaterializeVertex(vertex[v1 + 1]).x = dx * (MAX_RGB_VALUE - MIN_RGB_VALUE)
        /\ v.y - MaterializeVertex(vertex[v1 + 1]).y = dy * (MAX_RGB_VALUE - MIN_RGB_VALUE)
        /\ v.z - MaterializeVertex(vertex[v1 + 1]).z = dz * (MAX_RGB_VALUE - MIN_RGB_VALUE)

\* C16, reached: loop() has passed deltas with a component of +1 and one of
\* -1, and the engine has taken them.
C16_Witness ==
  /\ lstate = "S_ANIMATE" /\ tstate = "S_LOOP" /\ idx = 0
  /\ <<dx, dy, dz>> = EntryDeltas
  /\ 1 \in {dx, dy, dz} /\ -1 \in {dx, dy, dz}

---------------------------------------------------------------------------
(* The fixed path's cursor.                                                *)

\* C17: in the fixed-path build the index i>>1 every selection reads path
\* at is less than MAX_PATH_SIZE, and the vertex indices v1 and v2 are in
\* [0,7], so that vertex[v1] and vertex[v2] are read inside the table.
C17_PathIndexInBounds ==
  /\ i \div 2 < MAX_PATH_SIZE
  /\ v2 \in 0 .. MAX_VERTICES - 1
  /\ v1 \in 0 .. MAX_VERTICES - 1

---------------------------------------------------------------------------
(* The writes of the whole run.                                            *)

\* nothing has been written to the pins yet (a write is never all zero:
\* its channels are at least MIN_RGB_VALUE)
NoWriteYet == pwm = [x |-> 0, y |-> 0, z |-> 0]

\* C18: in the random build every write of the program puts v, within
\* [MIN_RGB_VALUE, MAX_RGB_VALUE], on the pins; the first write of the
\* program is vertex[0] materialized, (MIN, MIN, MIN); every later write
\* differs from the write before it, be it of the same session or the last
\* one of the session before, by at most 1 on each channel.
C18_SmoothWrites ==
  [][(writes' = writes + 1) =>
       /\ pwm' = v
       /\ \A ax \in {pwm'.x, pwm'.y, pwm'.z} :
            MIN_RGB_VALUE <= ax /\ ax <= MAX_RGB_VALUE
       /\ IF NoWriteYet
            THEN pwm' = [x |-> MIN_RGB_VALUE, y |-> MIN_RGB_VALUE,
                         z |-> MIN_RGB_VALUE]
            ELSE Jump(pwm', pwm) <= 1]_vars

\* C18, reached: the first write of a later session, one step on from the
\* last write of the session before it.
C18_Witness ==
  /\ writes = 1 /\ lstate = "S_ANIMATE" /\ v1 # 0 /\ v1 # v2
  /\ pwm = MaterializeVertex(vertex[v1 + 1])
  /\ pwm # [x |-> MIN_RGB_VALUE, y |-> MIN_RGB_VALUE, z |-> MIN_RGB_VALUE]

---------------------------------------------------------------------------
(* traverse called with arguments that change from call to call.           *)

ArgSample == {<<0, 0, 0>>, <<1, 1, 1>>, <<-1, 0, 1>>, <<0, -1, 0>>}

ArgStarts == { [x |-> 10, y |-> 255, z |-> 10], [x |-> 255, y |-> 10, z |-> 255] }

InitArgs == InitReq({ [c |-> c, d |-> <<0, 0, 0>>] : c \in ArgStarts })

\* the driver calls traverse with any arguments, req.d those of the call
DriveAny ==
  /\ extra < MaxExtraCalls
  /\ \E a \in ArgSample :
       /\ traverse(a[1], a[2], a[3])
       /\ req' = [req EXCEPT !.d = a]
  /\ extra' = IF Completed THEN extra + 1 ELSE extra
  /\ UNCHANGED <<now, lstate, v1, v2, i>>

NextArgs == DriveAny \/ Tick(MaxTime)

SpecArgs == InitArgs /\ [][NextArgs]_vars

\* what a call does with the engine in S_LOOP, S_WAITTRANS or S_WAITDELAY,
\* written without the arguments
BusyCall ==
  /\ IF tstate = "S_LOOP" THEN TLoop ELSE TWait
  /\ ret' = (tstate' = "S_INIT")

\* C19: a call with the engine in S_LOOP, S_WAITTRANS or S_WAITDELAY does
\* the same whatever its arguments (next engine state, writes, v and return
\* value do not depend on them); the deltas change, and the step counter
\* goes back to 0, only on a call in S_INIT, which takes the deltas from its
\* arguments; idx never exceeds MAX - MIN; calls in S_INIT, S_WAITTRANS and
\* S_WAITDELAY neither write nor change v.
C19_ArgsIgnored ==
  [][/\ (Busy(tstate) /\ now' = now) => BusyCall
     /\ (<<dx', dy', dz'>> # <<dx, dy, dz>> \/ idx' < idx) =>
           (tstate = "S_INIT" /\ <<dx', dy', dz'>> = req'.d /\ idx' = 0)
     /\ idx <= MAX_RGB_VALUE - MIN_RGB_VALUE
     /\ idx' <= MAX_RGB_VALUE - MIN_RGB_VALUE
     /\ tstate \in {"S_INIT", "S_WAITTRANS", "S_WAITDELAY"} =>
           (pwm' = pwm /\ writes' # writes + 1 /\ v' = v)]_vars

\* C19, reached: a session in whose course traverse was called with
\* arguments other than its deltas has come to its rest on the target.
C19_Witness ==
  /\ extra = 0 /\ tstate = "S_WAITDELAY" /\ idx = MAX_RGB_VALUE - MIN_RGB_VALUE
  /\ <<dx, dy, dz>> = <<-1, 0, 1>> /\ req.d = <<1, 1, 1>>
  /\ v = Shifted(req.c, <<dx, dy, dz>>, MAX_RGB_VALUE - MIN_RGB_VALUE)

---------------------------------------------------------------------------
(* The timers across the wrap of millis().                                 *)

\* the calls of traverse keep coming and millis() keeps advancing
SpecTailFair == SpecTail /\ WF_vars(Drive) /\ WF_vars(TickFine)

\* C20: a call made while the engine waits leaves the wait only when
\* timeDelay ms have gone by since timeStart, counted modulo 2^32, and every
\* wait of the session is left in the end; so also for a wait that began
\* shortly before the counter wrapped from 2^32 - 1 to 0 (timeStart is then
\* negative as a signed number while millis() is small, and now - timeStart
\* is the time gone by): it ends neither early nor never.
C20_WrapAround ==
  /\ [][(tstate \in {"S_WAITTRANS", "S_WAITDELAY"} /\ tstate' # tstate) =>
          /\ now - timeStart >= timeDelay
          /\ tstate' = AfterWait
          /\ timeDelay = IF tstate = "S_WAITTRANS" THEN TRANSITION_DELAY
                                                   ELSE WAIT_DELAY]_vars
  /\ (tstate = "S_WAITTRANS" /\ extra = 0) ~> (tstate = "S_LOOP")
  /\ (tstate = "S_WAITDELAY" /\ extra = 0) ~> (tstate = "S_INIT" /\ ret)

\* C20, reached: a transition wait begun at 2^32 - 50 was left on the
\* millisecond the counter, wrapped, read 50.
C20_Witness ==
  /\ tstate = "S_LOOP" /\ timeStart = -50 /\ now = TRANSITION_DELAY - 50
  /\ timeDelay = TRANSITION_DELAY /\ extra = 0

\* C20, reached for the rest: begun before the wrap, ended WAIT_DELAY ms
\* later, after it.
C20_WitnessRest ==
  /\ FirstDone /\ tstate = "S_INIT" /\ timeDelay = WAIT_DELAY
  /\ timeStart < 0 /\ now >= 0 /\ now - timeStart = WAIT_DELAY

============================================================================
